---- MODULE Spec2Model ----
(***************************************************************************)
(* A model of amazon_scraper.py: the start-up code that loads the URL      *)
(* file, process_products, get_product_bsr with its three layout           *)
(* strategies and its two exception handlers, the two exports and          *)
(* display_summary.                                                        *)
(*                                                                         *)
(* Text is a sequence of one-character strings.  Two tokens stand for a    *)
(* phrase: "BSR" for 'Best Sellers Rank' and "bsr" for the same phrase in  *)
(* another letter case.  None is the empty sequence <<>> and a present     *)
(* value v is <<v>>.                                                       *)
(***************************************************************************)
EXTENDS Integers, Sequences, FiniteSets, TLC

VARIABLES
    file,        \* amazon_urls.txt: <<>> when missing, <<lines>> when present
    served,      \* served[k]: the page the site answers the k-th request with
    pc,          \* position of the single thread of control
    urls,        \* product_urls
    results,     \* process_products: results
    total,       \* process_products: total
    i,           \* process_products: loop index (from 1)
    url,         \* get_product_bsr: url
    response,    \* get_product_bsr: <<page>> once fetched
    title,       \* get_product_bsr: title
    asin,        \* get_product_bsr: asin
    rankings,    \* get_product_bsr: rankings
    exc,         \* the exception in flight: <<>> or <<[kind, msg]>>
    ret,         \* the record get_product_bsr returned
    requests,    \* number of HTTP GET requests issued so far
    clock,       \* time spent suspended in time.sleep
    csvOut,      \* amazon_bsr_results.csv: <<>> or <<rows>>
    jsonOut,     \* amazon_bsr_results.json: <<>> or <<records>>
    summary,     \* what display_summary printed: <<>> or <<[...]>>
    exitStatus,  \* <<>> while running, <<n>> after exit(n) or a normal end
    tried,       \* history: strategies attempted in the current call, with yields
    rankSrc,     \* history: the strategy that appended each entry of rankings
    excLog,      \* history: per record, the kind of exception that was caught
    triedLog,    \* history: per record, the value of tried when it returned
    sleepLog     \* history: per sleep, [records, fetches, delay] at that moment

vars == <<file, served, pc, urls, results, total, i, url, response, title, asin,
          rankings, exc, ret, requests, clock, csvOut, jsonOut, summary,
          exitStatus, tried, rankSrc, excLog, triedLog, sleepLog>>

-----------------------------------------------------------------------------
(* Bounds of the model and constants of the program *)

MaxLines == 3

MaxExtra == 2

AsinLen == 10

Delay == 3

-----------------------------------------------------------------------------
(* Characters and strings *)

Digit == {"0", "1", "2", "3", "4", "5", "6", "7", "8", "9"}

Upper == {"A", "B", "C", "D", "E", "F", "G", "H", "I", "J", "K", "L", "M",
          "N", "O", "P", "Q", "R", "S", "T", "U", "V", "W", "X", "Y", "Z"}

Space == {" ", "\n", "\t"}

None == <<>>

Some(v) == <<v>>

NA == <<"N", "/", "A">>

DigitVal(c) ==
    CASE c = "0" -> 0 [] c = "1" -> 1 [] c = "2" -> 2 [] c = "3" -> 3
      [] c = "4" -> 4 [] c = "5" -> 5 [] c = "6" -> 6 [] c = "7" -> 7
      [] c = "8" -> 8 [] c = "9" -> 9

\* Number of consecutive characters of s, from position p on, that are in S.
RunLen(s, p, S) ==
    CHOOSE k \in 0..(Len(s) + 1 - p) :
        /\ \A j \in p..(p + k - 1) : s[j] \in S
        /\ (p + k > Len(s) \/ s[p + k] \notin S)

\* str.strip(): leading and trailing whitespace removed.
Strip(s) ==
    LET lead == RunLen(s, 1, Space)
        last == IF lead = Len(s) THEN 0
                ELSE CHOOSE k \in 1..Len(s) :
                        /\ s[k] \notin Space
                        /\ \A j \in (k + 1)..Len(s) : s[j] \in Space
    IN  IF lead = Len(s) THEN <<>> ELSE SubSeq(s, lead + 1, last)

\* str.startswith(prefix)
StartsWith(s, prefix) ==
    /\ Len(s) >= Len(prefix)
    /\ SubSeq(s, 1, Len(prefix)) = prefix

\* rank.replace(',', '')
RECURSIVE RemoveCommas(_)
RemoveCommas(s) ==
    IF s = <<>> THEN <<>>
    ELSE IF Head(s) = "," THEN RemoveCommas(Tail(s))
         ELSE <<Head(s)>> \o RemoveCommas(Tail(s))

\* int(text) for a text of decimal digits; the caller checks IntRaises first.
RECURSIVE IntOf(_)
IntOf(s) ==
    IF s = <<>> THEN 0
    ELSE 10 * IntOf(SubSeq(s, 1, Len(s) - 1)) + DigitVal(s[Len(s)])

\* int('') raises ValueError; every other text of digits converts.
IntRaises(s) == s = <<>>

-----------------------------------------------------------------------------
(* re.findall(r'#([\d,]+)\s+in\s+([^\(]+?)(?:\s*\(|$)', text) *)

\* The position after (?:\s*\(|$) matched at position t, or 0 when it does not
\* match there.  $ matches at the end of the text and before a final newline.
TailEnd(text, t) ==
    LET s == RunLen(text, t, Space)
    IN  IF t + s <= Len(text) /\ text[t + s] = "(" THEN t + s + 1
        ELSE IF t = Len(text) + 1 \/ (t = Len(text) /\ text[t] = "\n") THEN t
        ELSE 0

\* One match of the pattern starting exactly at position p: <<>> or
\* <<[rank, category, end]>>.  [\d,]+ and the first \s+ are greedy and cannot
\* give back (the next character must be whitespace, then 'i'); the second \s+
\* is greedy and gives back one character at a time; the category is lazy.
MatchAt(text, p) ==
    IF p > Len(text) \/ text[p] # "#" THEN None
    ELSE
    LET d  == RunLen(text, p + 1, Digit \cup {","})
        q1 == p + 1 + d
        w1 == RunLen(text, q1, Space)
        q2 == q1 + w1
    IN  IF d = 0 \/ w1 = 0 \/ q2 + 1 > Len(text)
           \/ text[q2] # "i" \/ text[q2 + 1] # "n" THEN None
        ELSE
        LET q3   == q2 + 2
            w2   == RunLen(text, q3, Space)
            ok(w, c) ==
                /\ q3 + w + c - 1 <= Len(text)
                /\ \A j \in (q3 + w)..(q3 + w + c - 1) : text[j] # "("
                /\ TailEnd(text, q3 + w + c) # 0
            ws   == {w \in 1..w2 : \E c \in 1..Len(text) : ok(w, c)}
        IN  IF ws = {} THEN None
            ELSE
            LET w == CHOOSE x \in ws : \A y \in ws : y <= x
                c == CHOOSE x \in 1..Len(text) :
                        ok(w, x) /\ \A y \in 1..(x - 1) : ~ok(w, y)
            IN  Some([rank     |-> SubSeq(text, p + 1, p + d),
                      category |-> SubSeq(text, q3 + w, q3 + w + c - 1),
                      end      |-> TailEnd(text, q3 + w + c)])

\* The non-overlapping matches from position p on, leftmost first.
RECURSIVE FindFrom(_, _)
FindFrom(text, p) ==
    IF p > Len(text) THEN <<>>
    ELSE LET m == MatchAt(text, p)
         IN  IF m = None THEN FindFrom(text, p + 1)
             ELSE <<[rank |-> m[1].rank, category |-> m[1].category]>>
                      \o FindFrom(text, IF m[1].end > p THEN m[1].end ELSE p + 1)

FindAll(text) == FindFrom(text, 1)

-----------------------------------------------------------------------------
(* get_product_bsr: the pure parts *)

\* True when '/dp/' stands at position p of u, followed by AsinLen characters
\* of [A-Z0-9]: a match of r'/dp/([A-Z0-9]{10})' at p.
AsinMatchAt(u, p) ==
    /\ p + 3 + AsinLen <= Len(u)
    /\ SubSeq(u, p, p + 3) = <<"/", "d", "p", "/">>
    /\ \A k \in 1..AsinLen : u[p + 3 + k] \in Upper \cup Digit

\* asin_match = re.search(...); asin = asin_match.group(1) if asin_match else "N/A"
AsinOf(u) ==
    LET ps == {p \in 1..Len(u) : AsinMatchAt(u, p)}
    IN  IF ps = {} THEN NA
        ELSE LET p == CHOOSE x \in ps : \A y \in ps : x <= y
             IN  SubSeq(u, p + 4, p + 3 + AsinLen)

\* A faulty variant: the category is kept as matched, without strip().
MakeEntry_NoStrip(rank, category) ==
    [rank           |-> IntOf(RemoveCommas(rank)),
     rank_formatted |-> rank,
     category       |-> category]

\* The dict appended for one match (rank, category).
MakeEntry(rank, category) ==
    [rank           |-> IntOf(RemoveCommas(rank)),
     rank_formatted |-> rank,
     category       |-> Strip(category)]

\* for rank, category in rank_matches: rankings.append({...}); int() may raise.
RECURSIVE AppendMatches(_, _)
AppendMatches(rs, ms) ==
    IF ms = <<>> THEN [raised |-> FALSE, rankings |-> rs]
    ELSE IF IntRaises(RemoveCommas(Head(ms).rank))
         THEN [raised |-> TRUE, rankings |-> rs]
         ELSE AppendMatches(Append(rs, MakeEntry(Head(ms).rank, Head(ms).category)),
                            Tail(ms))

\* rank_matches = re.findall(pattern, text), then the appending loop.
Extract(rs, text) == AppendMatches(rs, FindAll(text))

\* The spans loop of Method 2: each span's parent text, a span without a
\* parent skipped; the loop ends at the first int() that raises.
RECURSIVE ExtractSpans(_, _)
ExtractSpans(rs, parents) ==
    IF parents = <<>> THEN [raised |-> FALSE, rankings |-> rs]
    ELSE IF Head(parents) = None THEN ExtractSpans(rs, Tail(parents))
         ELSE LET r == Extract(rs, Head(parents)[1])
              IN  IF r.raised THEN r ELSE ExtractSpans(r.rankings, Tail(parents))

\* 'Best Sellers Rank' in bsr_text
ContainsBSR(text) == \E k \in 1..Len(text) : text[k] = "BSR"

NotFound == <<"N", "o", "t", " ", "f", "o", "u", "n", "d">>

ErrorText == <<"E", "r", "r", "o", "r">>

TitleNotFound == <<"T", "i", "t", "l", "e", " ", "n", "o", "t", " ",
                   "f", "o", "u", "n", "d">>

\* A faulty variant: the primary fields are taken from the last entry.
SuccessRecord_Last(u, a, t, rs, now) ==
    LET primary_rank == IF rs # <<>> THEN Some(rs[Len(rs)]) ELSE None
    IN  [url                    |-> u,
         asin                   |-> a,
         title                  |-> t,
         primary_rank           |-> IF primary_rank # None
                                    THEN Some(primary_rank[1].rank) ELSE None,
         primary_rank_formatted |-> IF primary_rank # None
                                    THEN primary_rank[1].rank_formatted ELSE NotFound,
         primary_category       |-> IF primary_rank # None
                                    THEN primary_rank[1].category ELSE NA,
         all_rankings           |-> rs,
         timestamp              |-> now,
         status                 |-> "success"]

\* The dict returned at the end of the try block.
SuccessRecord(u, a, t, rs, now) ==
    LET primary_rank == IF rs # <<>> THEN Some(rs[1]) ELSE None
    IN  [url                    |-> u,
         asin                   |-> a,
         title                  |-> t,
         primary_rank           |-> IF primary_rank # None
                                    THEN Some(primary_rank[1].rank) ELSE None,
         primary_rank_formatted |-> IF primary_rank # None
                                    THEN primary_rank[1].rank_formatted ELSE NotFound,
         primary_category       |-> IF primary_rank # None
                                    THEN primary_rank[1].category ELSE NA,
         all_rankings           |-> rs,
         timestamp              |-> now,
         status                 |-> "success"]

\* A faulty variant: the handler's dict has no 'error' key.
ErrorRecord_NoMessage(u, msg, now) ==
    [url                    |-> u,
     asin                   |-> NA,
     title                  |-> ErrorText,
     primary_rank           |-> None,
     primary_rank_formatted |-> ErrorText,
     primary_category       |-> NA,
     all_rankings           |-> <<>>,
     timestamp              |-> now,
     status                 |-> "error"]

\* The dict both except clauses return, with their own message.
ErrorRecord(u, msg, now) ==
    [url                    |-> u,
     asin                   |-> NA,
     title                  |-> ErrorText,
     primary_rank           |-> None,
     primary_rank_formatted |-> ErrorText,
     primary_category       |-> NA,
     all_rankings           |-> <<>>,
     timestamp              |-> now,
     status                 |-> "error",
     error                  |-> msg]

\* A faulty variant: the last URL is followed by a sleep too.
NeedsDelay_Always(idx, n) == idx <= n

\* if i < total: time.sleep(delay)
NeedsDelay(idx, n) == idx < n

-----------------------------------------------------------------------------
(* The start-up code: the pure parts *)

\* line.strip() and line.strip().startswith('http')
LineKept(line) ==
    /\ Strip(line) # <<>>
    /\ StartsWith(Strip(line), <<"h", "t", "t", "p">>)

\* [line.strip() for line in f if ...]
RECURSIVE ValidUrls(_)
ValidUrls(lines) ==
    IF lines = <<>> THEN <<>>
    ELSE IF LineKept(Head(lines))
         THEN <<Strip(Head(lines))>> \o ValidUrls(Tail(lines))
         ELSE ValidUrls(Tail(lines))

\* A faulty variant: the emptiness test is missing.
NoValidUrls_Never(us) == FALSE

\* if not product_urls:
NoValidUrls(us) == us = <<>>

-----------------------------------------------------------------------------
(* display_summary: the pure parts *)

\* Truth value of r['primary_rank']: None and 0 are false.
Truthy(opt) == opt # None /\ opt[1] # 0

RECURSIVE SumRanks(_)
SumRanks(rs) ==
    IF rs = <<>> THEN 0 ELSE Head(rs).primary_rank[1] + SumRanks(Tail(rs))

\* [r for r in results if r['status'] == 'success' and r['primary_rank']]
SuccessfulResults(rs) ==
    SelectSeq(rs, LAMBDA r : r.status = "success" /\ Truthy(r.primary_rank))

\* f"{avg_rank:,.0f}" of the quotient num / den: to nearest, ties to even.
RoundedMean(num, den) ==
    LET q == num \div den
        r == num % den
    IN  IF 2 * r < den THEN q
        ELSE IF 2 * r > den THEN q + 1
        ELSE IF q % 2 = 0 THEN q ELSE q + 1

\* What display_summary prints for a result list.
SummaryOf(rs) ==
    LET successful == Len(SelectSeq(rs, LAMBDA r : r.status = "success"))
        failed     == Len(rs) - successful
        sr         == SuccessfulResults(rs)
        ranks      == {sr[k].primary_rank[1] : k \in 1..Len(sr)}
    IN  [total      |-> Len(rs),
         successful |-> successful,
         failed     |-> failed,
         stats      |-> IF sr # <<>>
                        THEN Some([sum   |-> SumRanks(sr),
                                   count |-> Len(sr),
                                   avg   |-> RoundedMean(SumRanks(sr), Len(sr)),
                                   best  |-> CHOOSE m \in ranks : \A x \in ranks : m <= x,
                                   worst |-> CHOOSE m \in ranks : \A x \in ranks : x <= m])
                        ELSE None]

\* One row of the CSV export.
CsvRow(r) ==
    <<r.asin, r.title, r.primary_rank_formatted, r.primary_category,
      [k \in 1..Len(r.all_rankings) |->
          <<r.all_rankings[k].rank_formatted, r.all_rankings[k].category>>],
      r.url, r.timestamp, r.status>>

-----------------------------------------------------------------------------
(* Inputs: the pages the site may serve and the URL files *)

\* A fetched page, as the calls of get_product_bsr see it:
\*   fetch    None, or the message of the RequestException that
\*            requests.get / raise_for_status raises
\*   soup     None, or the message of an exception raised while parsing
\*   title    None, or the text of span#productTitle
\*   th       None, or the th that soup.find returns: td is None or the text
\*            of the td that find_next returns
\*   wrapper  None, or div#detailBulletsWrapper_feature_div: li is None or the
\*            text of the li that find returns; spans holds, per span that
\*            find_all returns, None or the text of its parent
\*   detail   None, or the text of div#detailBullets_feature_div
Page(f, sp, t, th, w, d) ==
    [fetch |-> f, soup |-> sp, title |-> t, th |-> th, wrapper |-> w, detail |-> d]

T_None == <<"n", "o", " ", "r", "a", "n", "k">>

T_One == <<"#", "5", " ", "i", "n", " ", "B">>

T_Two == <<"#", "7", " ", "i", "n", " ", "C", " ", "(", "x", ")", " ",
           "#", "8", " ", "i", "n", " ", "D">>

T_Bad == <<"#", ",", " ", "i", "n", " ", "E">>

T_Zero == <<"#", "0", " ", "i", "n", " ", "Z">>

T_Big == <<"#", "1", ",", "2", "3", "4", " ", "i", "n", " ", "T", "V", " ",
           "(", "T", "o", "p", ")", "\n", "#", "1", "2", " ", "i", "n", " ", "H", "i">>

SmallTexts == {T_None, T_One, T_Two, T_Bad}

\* '#' digits ' in ' category, then the parenthetical
Form(d, c, p) == <<"#">> \o d \o <<" ", "i", "n", " ">> \o c \o p

DigitStrs == { <<"1">>, <<"0">>, <<"1", ",", "2", "3", "4">>, <<",">>,
               <<"0", "7">>, <<",", "5", ",">> }

Cats == { <<"A">>, <<" ", "A", "b", " ">>, <<"A", " ", "&", " ", "B">>,
          <<"C", "#">>, <<"A", "\n">> }

Parens == { <<>>,
            <<" ", "(", "S", "e", "e", " ", "T", "o", "p", " ", "1", "0", "0", ")">>,
            <<"(", "x", ")">>,
            <<" ", "(", "#", "2", " ", "i", "n", " ", "Z", ")">> }

FormTexts == {Form(d, c, p) : d \in DigitStrs, c \in Cats, p \in Parens}

OtherTexts == { T_Zero, T_Big,
                <<"#", "5", " ", "i", "n", "B">>,
                <<"#", " ", "5", " ", "i", "n", " ", "B">>,
                <<"#", "3", " ", "i", "n", " ", "(", "x", ")">>,
                <<"5", " ", "i", "n", " ", "B">> }

RichTexts == FormTexts \cup OtherTexts

Titles == {None, Some(<<" ", "T", "V", " ">>)}

SmallA == {None, Some([td |-> None])} \cup {Some([td |-> Some(t)]) : t \in SmallTexts}

SpanLists == { <<>>, <<None>>, <<Some(T_One)>>, <<None, Some(T_Two)>>,
               <<Some(T_One), Some(T_Two)>>, <<Some(T_Bad), Some(T_One)>> }

SmallB == {None}
          \cup {Some([li |-> None, spans |-> sp]) : sp \in SpanLists}
          \cup {Some([li |-> Some(t), spans |-> <<>>]) : t \in SmallTexts}

SmallC == {None}
          \cup {Some(t) : t \in SmallTexts}
          \cup {Some(<<"BSR", ":", " ">> \o t) : t \in SmallTexts}
          \cup {Some(<<"bsr", " ">> \o T_One)}

P_Fail == Page(Some("Read timed out"), None, None, None, None, None)

P_Raise == Page(None, Some("markup"), None, None, None, None)

P_NoRank == Page(None, None, None, None, None, None)

P_Zero == Page(None, None, Some(<<" ", "T", "V", " ">>), Some([td |-> Some(T_Zero)]), None, None)

P_One == Page(None, None, None, None, None, Some(<<"BSR", " ">> \o T_One))

P_Two == Page(None, None, None, None,
              Some([li |-> Some(T_Big), spans |-> <<>>]), None)

\* Every combination of the small layouts
ProductPages ==
    {Page(None, None, t, a, b, c) : t \in Titles, a \in SmallA, b \in SmallB, c \in SmallC}

\* One rich text, in the details table or in the detail bullets item
FormPages ==
    {Page(None, None, None, Some([td |-> Some(t)]), None, None) : t \in RichTexts}
    \cup {Page(None, None, None, None, Some([li |-> Some(t), spans |-> <<>>]), None) :
             t \in RichTexts}
    \cup {Page(None, None, None, None, None, Some(<<"BSR", "\n">> \o t)) : t \in RichTexts}

RichPages == ProductPages \cup FormPages \cup {P_Fail, P_Raise}

BatchPages == {P_Fail, P_Raise, P_NoRank, P_Zero, P_One, P_Two}

TinyPages == {P_Fail, P_Raise, P_One}

Http == <<"h", "t", "t", "p">>

Dp == <<"/", "d", "p", "/">>

AsinChars == <<"B", "0", "8", "N", "5", "W", "R", "W", "N", "W", "X", "7", "Q", "2", "K", "4">>

U_Plain == Http \o Dp \o SubSeq(AsinChars, 1, AsinLen)

\* Lines of the URL file: blank, blanks only, not a URL, URLs with and
\* without surrounding whitespace, 'http' not at the start.
BatchLines == { <<"\n">>,
                <<" ", "\n">>,
                <<"f", "t", "p", ":", "/", "\n">>,
                <<" ">> \o U_Plain \o <<" ", "\n">>,
                Http \o <<"/", "b">>,
                <<"x">> \o Http \o <<"\n">> }

\* URLs around the identifier pattern: runs of 0 .. AsinLen + MaxExtra
\* characters of [A-Z0-9] after '/dp/', alone, after an earlier '/dp/', and
\* followed by other characters.
AsinUrls ==
    {Http \o pre \o Dp \o SubSeq(AsinChars, 1, k) \o suf :
        pre \in { <<>>, <<"/", "d", "p", "/", "B", "0">>,
                  Dp \o <<"A", "A", "A", "A", "A", "A", "A", "A", "A", "A">> },
        k   \in 0..(AsinLen + MaxExtra),
        suf \in { <<>>, <<"/">>, <<"b">>, <<"?", "x">> }}
    \cup { Http \o <<"/", "D", "P", "/">> \o SubSeq(AsinChars, 1, AsinLen),
           Http \o <<"/", "d", "p">> \o SubSeq(AsinChars, 1, AsinLen),
           Http \o Dp \o <<"b", "0", "8", "n", "5", "w", "r", "w", "n", "w">> }

\* All sequences of at most n elements of S
SeqsUpTo(S, n) == UNION {[1..k -> S] : k \in 0..n}

\* The files: missing, or at most MaxLines lines, the first line from First
\* and the others from Rest.
Files(First, Rest) ==
    {None, Some(<<>>)}
    \cup {Some(<<f>> \o r) : f \in First, r \in SeqsUpTo(Rest, MaxLines - 1)}

\* The answers to n requests: the first from First, the others from Rest.
Answers(n, First, Rest) ==
    IF n = 0 THEN {<<>>}
    ELSE {<<f>> \o r : f \in First, r \in [1..(n - 1) -> Rest]}

NumRequests(f) == IF f = None THEN 0 ELSE Len(ValidUrls(f[1]))

-----------------------------------------------------------------------------
(* The state machine *)

InitWith(FirstLines, RestLines, FirstPages, RestPages) ==
    /\ file \in Files(FirstLines, RestLines)
    /\ served \in Answers(NumRequests(file), FirstPages, RestPages)
    /\ pc = "start"
    /\ urls = <<>>
    /\ results = <<>>
    /\ total = 0
    /\ i = 0
    /\ url = <<>>
    /\ response = None
    /\ title = <<>>
    /\ asin = <<>>
    /\ rankings = <<>>
    /\ exc = None
    /\ ret = None
    /\ requests = 0
    /\ clock = 0
    /\ csvOut = None
    /\ jsonOut = None
    /\ summary = None
    /\ exitStatus = None
    /\ tried = <<>>
    /\ rankSrc = <<>>
    /\ excLog = <<>>
    /\ triedLog = <<>>
    /\ sleepLog = <<>>

\* Rich URL files, few pages
Init == InitWith(BatchLines, BatchLines, BatchPages, BatchPages)

\* One URL, rich pages
InitExtract == InitWith({U_Plain}, {U_Plain}, RichPages, {P_Fail})

\* Rich URLs, few pages
InitAsin == InitWith(AsinUrls, {U_Plain}, TinyPages, {P_Fail})

inputs == <<file, served>>

call == <<url, response, title, asin, rankings, exc, ret, tried, rankSrc>>

outputs == <<csvOut, jsonOut, summary>>

history == <<excLog, triedLog, sleepLog>>

\* The start-up code up to the call of process_products: the file is read and
\* filtered; a missing file or an empty list ends the run with exit(1).
LoadUrls ==
    /\ pc = "start"
    /\ IF file = None
       THEN /\ pc' = "exit"
            /\ exitStatus' = Some(1)
            /\ urls' = urls
       ELSE LET product_urls == ValidUrls(file[1])
            IN  /\ urls' = product_urls
                /\ IF NoValidUrls(product_urls)
                   THEN pc' = "exit" /\ exitStatus' = Some(1)
                   ELSE pc' = "process" /\ exitStatus' = exitStatus
    /\ UNCHANGED <<inputs, results, total, i, call, requests, clock, outputs, history>>

\* process_products up to the loop
ProcessStart ==
    /\ pc = "process"
    /\ results' = <<>>
    /\ total' = Len(urls)
    /\ i' = 1
    /\ pc' = IF Len(urls) = 0 THEN "save_csv" ELSE "fetch"
    /\ UNCHANGED <<inputs, urls, call, requests, clock, outputs, exitStatus, history>>

\* The loop takes the i-th URL and calls get_product_bsr, which issues the
\* request; requests.get or raise_for_status may raise.
Fetch ==
    /\ pc = "fetch"
    /\ requests < Len(served)
    /\ LET page == served[requests + 1]
       IN  /\ url' = urls[i]
           /\ requests' = requests + 1
           /\ IF page.fetch # None
              THEN /\ exc' = Some([kind |-> "RequestException", msg |-> page.fetch[1]])
                   /\ response' = None
                   /\ pc' = "except"
              ELSE /\ exc' = None
                   /\ response' = Some(page)
                   /\ pc' = "parse"
    /\ title' = <<>>
    /\ asin' = <<>>
    /\ rankings' = <<>>
    /\ ret' = None
    /\ tried' = <<>>
    /\ rankSrc' = <<>>
    /\ UNCHANGED <<inputs, urls, results, total, i, clock, outputs, exitStatus, history>>

\* BeautifulSoup(...), the title and the ASIN
Parse ==
    /\ pc = "parse"
    /\ LET page == response[1]
       IN  IF page.soup # None
           THEN /\ exc' = Some([kind |-> "Exception", msg |-> page.soup[1]])
                /\ pc' = "except"
                /\ UNCHANGED <<title, asin>>
           ELSE /\ title' = IF page.title # None THEN Strip(page.title[1])
                            ELSE TitleNotFound
                /\ asin' = AsinOf(url)
                /\ pc' = "methodA"
                /\ exc' = exc
    /\ rankings' = <<>>
    /\ UNCHANGED <<inputs, urls, results, total, i, url, response, ret, tried, rankSrc,
                   requests, clock, outputs, exitStatus, history>>

IntError == "invalid literal for int() with base 10: ''"

\* The outcome r of one strategy named n: the entries it appended are
\* recorded, or the ValueError of int() is raised.
Finish(n, r, next) ==
    /\ tried' = Append(tried, [name |-> n, yield |-> Len(r.rankings) - Len(rankings)])
    /\ IF r.raised
       THEN /\ exc' = Some([kind |-> "ValueError", msg |-> IntError])
            /\ pc' = "except"
            /\ UNCHANGED <<rankings, rankSrc>>
       ELSE /\ rankings' = r.rankings
            /\ rankSrc' = rankSrc \o [k \in 1..(Len(r.rankings) - Len(rankings)) |-> n]
            /\ pc' = next
            /\ exc' = exc

Skip(next) ==
    /\ pc' = next
    /\ UNCHANGED <<rankings, rankSrc, tried, exc>>

\* A faulty variant: the next method runs whatever was found.
Fallback_Always(rs) == TRUE

\* if not rankings:
Fallback(rs) == rs = <<>>

\* Method 1: product details table
MethodA ==
    /\ pc = "methodA"
    /\ LET page == response[1]
           r == IF page.th # None /\ page.th[1].td # None
                THEN Extract(rankings, page.th[1].td[1])
                ELSE [raised |-> FALSE, rankings |-> rankings]
       IN  Finish("A", r, "methodB")
    /\ UNCHANGED <<inputs, urls, results, total, i, url, response, title, asin, ret,
                   requests, clock, outputs, exitStatus, history>>

\* Method 2: detail bullets section
MethodB ==
    /\ pc = "methodB"
    /\ LET page == response[1]
           r == IF page.wrapper = None
                THEN [raised |-> FALSE, rankings |-> rankings]
                ELSE IF page.wrapper[1].li = None
                     THEN ExtractSpans(rankings, page.wrapper[1].spans)
                     ELSE Extract(rankings, page.wrapper[1].li[1])
       IN  IF Fallback(rankings) THEN Finish("B", r, "methodC") ELSE Skip("methodC")
    /\ UNCHANGED <<inputs, urls, results, total, i, url, response, title, asin, ret,
                   requests, clock, outputs, exitStatus, history>>

\* Method 3: product details section (newer layout)
MethodC ==
    /\ pc = "methodC"
    /\ LET page == response[1]
           r == IF page.detail # None /\ ContainsBSR(page.detail[1])
                THEN Extract(rankings, page.detail[1])
                ELSE [raised |-> FALSE, rankings |-> rankings]
       IN  IF Fallback(rankings) THEN Finish("C", r, "return") ELSE Skip("return")
    /\ UNCHANGED <<inputs, urls, results, total, i, url, response, title, asin, ret,
                   requests, clock, outputs, exitStatus, history>>

\* The return at the end of the try block
ReturnSuccess ==
    /\ pc = "return"
    /\ ret' = Some(SuccessRecord(url, asin, title, rankings, clock))
    /\ excLog' = Append(excLog, "none")
    /\ triedLog' = Append(triedLog, [tried |-> tried, src |-> rankSrc])
    /\ pc' = "append"
    /\ UNCHANGED <<inputs, urls, results, total, i, url, response, title, asin, rankings,
                   exc, tried, rankSrc, requests, clock, outputs, exitStatus, sleepLog>>

\* except requests.exceptions.RequestException as e
ExceptRequest ==
    /\ pc = "except"
    /\ exc[1].kind = "RequestException"
    /\ ret' = Some(ErrorRecord(url, exc[1].msg, clock))
    /\ excLog' = Append(excLog, exc[1].kind)
    /\ triedLog' = Append(triedLog, [tried |-> tried, src |-> rankSrc])
    /\ exc' = None
    /\ pc' = "append"
    /\ UNCHANGED <<inputs, urls, results, total, i, url, response, title, asin, rankings,
                   tried, rankSrc, requests, clock, outputs, exitStatus, sleepLog>>

\* except Exception as e
ExceptGeneric ==
    /\ pc = "except"
    /\ exc[1].kind # "RequestException"
    /\ ret' = Some(ErrorRecord(url, "Parsing error: " \o exc[1].msg, clock))
    /\ excLog' = Append(excLog, exc[1].kind)
    /\ triedLog' = Append(triedLog, [tried |-> tried, src |-> rankSrc])
    /\ exc' = None
    /\ pc' = "append"
    /\ UNCHANGED <<inputs, urls, results, total, i, url, response, title, asin, rankings,
                   tried, rankSrc, requests, clock, outputs, exitStatus, sleepLog>>

\* A faulty variant: a failed URL is skipped instead of recorded.
AppendResult_SkipFailed ==
    /\ pc = "append"
    /\ results' = IF ret[1].status = "success" THEN Append(results, ret[1]) ELSE results
    /\ pc' = "delay"
    /\ UNCHANGED <<inputs, urls, total, i, call, requests, clock, outputs, exitStatus,
                   history>>

\* results.append(result) and the progress line
AppendResult ==
    /\ pc = "append"
    /\ results' = Append(results, ret[1])
    /\ pc' = "delay"
    /\ UNCHANGED <<inputs, urls, total, i, call, requests, clock, outputs, exitStatus,
                   history>>

\* The end of one iteration: the next URL, or the return of process_products
\* to the start-up code.
Advance ==
    IF i < total THEN i' = i + 1 /\ pc' = "fetch"
    ELSE i' = i /\ pc' = "save_csv"

\* time.sleep(delay) between two requests
Sleep ==
    /\ pc = "delay"
    /\ NeedsDelay(i, total)
    /\ clock' = clock + Delay
    /\ sleepLog' = Append(sleepLog, [records |-> Len(results), fetches |-> requests,
                                     delay |-> Delay, i |-> i])
    /\ Advance
    /\ UNCHANGED <<inputs, urls, results, total, call, requests, outputs, exitStatus,
                   excLog, triedLog>>

\* No sleep after the last URL
NoSleep ==
    /\ pc = "delay"
    /\ ~NeedsDelay(i, total)
    /\ Advance
    /\ UNCHANGED <<inputs, urls, results, total, call, requests, clock, outputs,
                   exitStatus, history>>

\* save_to_csv(results)
SaveToCsv ==
    /\ pc = "save_csv"
    /\ csvOut' = Some([k \in 1..Len(results) |-> CsvRow(results[k])])
    /\ pc' = "save_json"
    /\ UNCHANGED <<inputs, urls, results, total, i, call, requests, clock, jsonOut,
                   summary, exitStatus, history>>

\* save_to_json(results)
SaveToJson ==
    /\ pc = "save_json"
    /\ jsonOut' = Some(results)
    /\ pc' = "summary"
    /\ UNCHANGED <<inputs, urls, results, total, i, call, requests, clock, csvOut,
                   summary, exitStatus, history>>

\* display_summary(results), then the normal end of the run
DisplaySummary ==
    /\ pc = "summary"
    /\ summary' = Some(SummaryOf(results))
    /\ pc' = "exit"
    /\ exitStatus' = Some(0)
    /\ UNCHANGED <<inputs, urls, results, total, i, call, requests, clock, csvOut,
                   jsonOut, history>>

Next ==
    \/ LoadUrls
    \/ ProcessStart
    \/ Fetch
    \/ Parse
    \/ MethodA
    \/ MethodB
    \/ MethodC
    \/ ReturnSuccess
    \/ ExceptRequest
    \/ ExceptGeneric
    \/ AppendResult
    \/ Sleep
    \/ NoSleep
    \/ SaveToCsv
    \/ SaveToJson
    \/ DisplaySummary

Spec == Init /\ [][Next]_vars

SpecExtract == InitExtract /\ [][Next]_vars

SpecAsin == InitAsin /\ [][Next]_vars

-----------------------------------------------------------------------------
(* The claims *)

InCall == pc \in {"fetch", "parse", "methodA", "methodB", "methodC", "return",
                  "except", "append"}

Returned == pc \in {"save_csv", "save_json", "summary"}
            \/ (pc = "exit" /\ exitStatus = Some(0))

\* The step at the current position of the loop can be taken: the guard of
\* the action that stands there holds.
Runnable ==
    /\ (pc = "fetch" => i \in 1..Len(urls) /\ requests < Len(served))
    /\ (pc \in {"parse", "methodA", "methodB", "methodC"} => response # None)
    /\ (pc = "except" => exc # None)
    /\ (pc = "append" => ret # None)
    /\ (pc = "delay" => i \in 1..total)

\* C1: process_products runs to the end and returns exactly one record per
\* input URL, in input order (the record at position k has the k-th URL),
\* whatever the outcome of each URL: while the loop runs every record made so
\* far is in place and the next step can be taken, and on return the list is
\* complete.
C1_OneRecordPerUrl ==
    /\ \A k \in 1..Len(results) : k <= Len(urls) /\ results[k].url = urls[k]
    /\ (InCall => Len(results) = i - 1)
    /\ (pc = "delay" => Len(results) = i)
    /\ (InCall \/ pc = "delay" => Runnable)
    /\ (Returned => Len(results) = Len(urls))

\* C1 witness: the run returned two or more records, the first of a failed
\* URL and a later one of a successful URL.
C1_Witness ==
    /\ pc = "save_csv"
    /\ Len(results) >= 2
    /\ results[1].status = "error"
    /\ results[Len(results)].status = "success"

\* C2: the thread sleeps exactly N-1 times in a run over N >= 1 URLs: the
\* k-th sleep comes after the k-th record was appended and the k-th request
\* was issued, before the next request, never after the last URL, always for
\* the same delay whether the URL before it succeeded or failed; the time
\* suspended is (N-1) x delay.
C2_SleepsBetweenUrls ==
    /\ \A k \in 1..Len(sleepLog) :
          /\ sleepLog[k].records = k
          /\ sleepLog[k].fetches = k
          /\ sleepLog[k].i = k
          /\ sleepLog[k].delay = Delay
          /\ k < total
    /\ (InCall => Len(sleepLog) = i - 1 /\ requests \in {i - 1, i})
    /\ (pc = "delay" => Len(sleepLog) = i - 1)
    /\ clock = Len(sleepLog) * Delay
    /\ (Returned /\ total >= 1 => Len(sleepLog) = total - 1 /\ clock = (total - 1) * Delay)

\* C2 witness: a run over three URLs has returned after two sleeps, one of
\* them after a failed URL and one after a successful URL.
C2_Witness ==
    /\ pc = "save_csv"
    /\ total = 3
    /\ Len(sleepLog) = 2
    /\ clock = 2 * Delay
    /\ \E a, b \in 1..2 : results[a].status = "error" /\ results[b].status = "success"

\* The texts of a page that extraction may read
PageTexts(page) ==
    (IF page.th # None /\ page.th[1].td # None THEN {page.th[1].td[1]} ELSE {})
    \cup (IF page.wrapper # None /\ page.wrapper[1].li # None
          THEN {page.wrapper[1].li[1]} ELSE {})
    \cup (IF page.wrapper # None
          THEN {page.wrapper[1].spans[k][1] :
                   k \in {j \in 1..Len(page.wrapper[1].spans) :
                             page.wrapper[1].spans[j] # None}}
          ELSE {})
    \cup (IF page.detail # None THEN {page.detail[1]} ELSE {})

\* A text with a match whose digit group holds no digit
HasCommaOnlyRank(text) ==
    \E k \in 1..Len(FindAll(text)) :
        \A j \in 1..Len(FindAll(text)[k].rank) : FindAll(text)[k].rank[j] = ","

\* C3: a record has status 'error' if and only if the fetch or the parse
\* step raised a failure that was caught; then primary_rank is absent,
\* all_rankings is empty, the primary rank and category hold placeholders and
\* an 'error' message is present; a 'success' record has no 'error' field.
C3_ErrorIffRaised ==
    \A k \in 1..Len(results) :
        LET r == results[k]
            page == served[k]
        IN  /\ r.status \in {"success", "error"}
            /\ (r.status = "error" <=> excLog[k] # "none")
            /\ (page.fetch # None \/ page.soup # None => r.status = "error")
            /\ (r.status = "error" /\ page.fetch = None /\ page.soup = None
                  => \E t \in PageTexts(page) : HasCommaOnlyRank(t))
            /\ (r.status = "error" =>
                  /\ r.primary_rank = None
                  /\ r.all_rankings = <<>>
                  /\ r.primary_rank_formatted = ErrorText
                  /\ r.primary_category = NA
                  /\ "error" \in DOMAIN r
                  /\ r.error # "")
            /\ (r.status = "success" => "error" \notin DOMAIN r)

\* C3 witness: an error record of a page that was fetched and whose rank
\* text made int() raise.
C3_Witness ==
    \E k \in 1..Len(results) :
        /\ results[k].status = "error"
        /\ excLog[k] = "ValueError"
        /\ served[k].fetch = None

\* C4: in a record with status 'success' the primary fields equal rank,
\* rank_formatted and category of all_rankings[0] when all_rankings is
\* non-empty; otherwise primary_rank is absent and primary_category is "N/A".
C4_PrimaryMirrorsFirst ==
    \A k \in 1..Len(results) :
        LET r == results[k]
        IN  r.status = "success" =>
              IF r.all_rankings # <<>>
              THEN /\ r.primary_rank = Some(r.all_rankings[1].rank)
                   /\ r.primary_rank_formatted = r.all_rankings[1].rank_formatted
                   /\ r.primary_category = r.all_rankings[1].category
              ELSE /\ r.primary_rank = None
                   /\ r.primary_category = NA

\* C4 witness: a success record with two entries of different rank and
\* category, and a success record without entries.
C4_Witness ==
    /\ \E k \in 1..Len(results) :
          /\ results[k].status = "success"
          /\ Len(results[k].all_rankings) = 2
          /\ results[k].all_rankings[1].rank # results[k].all_rankings[2].rank
          /\ results[k].all_rankings[1].category # results[k].all_rankings[2].category
          /\ results[k].primary_rank = Some(results[k].all_rankings[1].rank)

\* C5: every entry of every record's all_rankings has a rank that is a
\* positive integer, the number read from rank_formatted with the commas
\* removed, for every text the pattern matches; every known primary_rank is
\* positive as well.
C5_RankPositive ==
    \A k \in 1..Len(results) :
        /\ \A e \in 1..Len(results[k].all_rankings) :
              /\ results[k].all_rankings[e].rank >= 1
              /\ results[k].all_rankings[e].rank
                    = IntOf(RemoveCommas(results[k].all_rankings[e].rank_formatted))
        /\ (results[k].primary_rank # None => results[k].primary_rank[1] >= 1)

\* C5 failing case: a success record whose rank text was '#0 in ...' holds
\* an entry of rank 0.
C5_ZeroRank ==
    \E k \in 1..Len(results) :
        /\ results[k].status = "success"
        /\ results[k].all_rankings # <<>>
        /\ results[k].all_rankings[1].rank = 0
        /\ results[k].all_rankings[1].rank_formatted = <<"0">>

\* The strategies ran in the order A, B, C, each only after all before it
\* yielded nothing.
InOrder(tr) ==
    /\ Len(tr) <= 3
    /\ \A k \in 1..Len(tr) :
          /\ tr[k].name = <<"A", "B", "C">>[k]
          /\ \A j \in 1..(k - 1) : tr[j].yield = 0

OneSource(src) == \A a, b \in 1..Len(src) : src[a] = src[b]

\* C6: the strategies are tried in the order A, B, C and stop at the first
\* that yields an entry: B is attempted only if A produced none, C only if A
\* and B produced none, and all entries of all_rankings come from one strategy.
C6_FirstStrategyWins ==
    /\ InOrder(tried)
    /\ OneSource(rankSrc)
    /\ Len(rankSrc) = Len(rankings)
    /\ \A k \in 1..Len(results) :
          /\ InOrder(triedLog[k].tried)
          /\ OneSource(triedLog[k].src)
          /\ (results[k].status = "success"
                => Len(triedLog[k].src) = Len(results[k].all_rankings))

\* C6 witness: the call is about to return entries found by Strategy A alone
\* for a page whose detail bullets and alternate container hold ranks too.
C6_Witness ==
    /\ pc = "return"
    /\ Len(tried) = 1
    /\ tried[1].yield = 2
    /\ response[1].wrapper # None
    /\ response[1].wrapper[1].li = Some(T_One)
    /\ response[1].detail = Some(<<"BSR", ":", " ">> \o T_One)

\* A line that, without its surrounding whitespace, starts with 'http'
IsUrlLine(line) ==
    \E k \in 1..Len(line) :
        /\ \A j \in 1..(k - 1) : line[j] \in Space
        /\ k + 3 <= Len(line)
        /\ line[k] = "h" /\ line[k + 1] = "t" /\ line[k + 2] = "t" /\ line[k + 3] = "p"

NoUrlInput == file = None \/ \A k \in 1..Len(file[1]) : ~IsUrlLine(file[1][k])

\* C7: when the URL file is missing or holds no valid URL, the run ends with
\* a non-zero exit status, no HTTP request is issued and no CSV or JSON file
\* is written.
C7_NoInputNoWork ==
    NoUrlInput =>
        /\ pc \in {"start", "exit"}
        /\ (pc = "exit" => exitStatus # None /\ exitStatus[1] # 0)
        /\ requests = 0
        /\ csvOut = None
        /\ jsonOut = None
        /\ summary = None

\* C7 witness: the run has exited with status 1 on a file of only blank and
\* non-URL lines.
C7_Witness ==
    /\ pc = "exit"
    /\ exitStatus = Some(1)
    /\ file # None
    /\ Len(file[1]) >= 2
    /\ NoUrlInput

HasDigit(d) == \E k \in 1..Len(d) : d[k] \in Digit

NoHash(p) == \A k \in 1..Len(p) : p[k] # "#"

KnownRanked == {k \in 1..Len(results) :
                   results[k].status = "success" /\ results[k].primary_rank # None}

\* C9: display_summary reports failed = total - successful and computes mean,
\* minimum and maximum over exactly the successful records whose primary_rank
\* is known; the statistics are printed if and only if there is such a
\* record, and then minimum <= mean <= maximum.
C9_SummaryOverKnownRanks ==
    summary # None =>
        LET sm == summary[1]
            ranks == {results[k].primary_rank[1] : k \in KnownRanked}
        IN  /\ sm.total = Len(results)
            /\ sm.failed = sm.total - sm.successful
            /\ sm.successful = Cardinality({k \in 1..Len(results) :
                                               results[k].status = "success"})
            /\ (sm.stats # None <=> KnownRanked # {})
            /\ (sm.stats # None =>
                  /\ sm.stats[1].count = Cardinality(KnownRanked)
                  /\ sm.stats[1].best \in ranks
                  /\ sm.stats[1].worst \in ranks
                  /\ \A x \in ranks : sm.stats[1].best <= x /\ x <= sm.stats[1].worst
                  /\ sm.stats[1].best * sm.stats[1].count <= sm.stats[1].sum
                  /\ sm.stats[1].sum <= sm.stats[1].worst * sm.stats[1].count)

\* C9 failing case: the summary was printed without statistics although a
\* successful record has a known primary rank (0).
C9_ZeroRankLeftOut ==
    /\ summary # None
    /\ summary[1].stats = None
    /\ KnownRanked # {}

\* '/dp/' at position p of u followed by exactly AsinLen characters of
\* [A-Z0-9]: the run ends there.
ExactlyTenAt(u, p) ==
    /\ p + 3 + AsinLen <= Len(u)
    /\ u[p] = "/" /\ u[p + 1] = "d" /\ u[p + 2] = "p" /\ u[p + 3] = "/"
    /\ \A k \in 4..(3 + AsinLen) : u[p + k] \in Upper \cup Digit
    /\ (p + 4 + AsinLen <= Len(u) => u[p + 4 + AsinLen] \notin Upper \cup Digit)

\* '/dp/' at position p of u followed by at least AsinLen characters of [A-Z0-9]
AtLeastTenAt(u, p) ==
    /\ p + 3 + AsinLen <= Len(u)
    /\ u[p] = "/" /\ u[p + 1] = "d" /\ u[p + 2] = "p" /\ u[p + 3] = "/"
    /\ \A k \in 4..(3 + AsinLen) : u[p + k] \in Upper \cup Digit

\* C10: a success record's asin is the identifier only when the URL
\* holds '/dp/' followed by exactly 10 characters of [A-Z0-9], not by a longer
\* run, and "N/A" for every other URL.
C10_ExactlyTen ==
    \A k \in 1..Len(results) :
        LET r == results[k]
            ps == {p \in 1..Len(r.url) : ExactlyTenAt(r.url, p)}
        IN  r.status = "success" =>
              IF ps = {} THEN r.asin = NA
              ELSE \E p \in ps : r.asin = SubSeq(r.url, p + 4, p + 3 + AsinLen)

\* What the code does instead of C10: a success record's asin is the first
\* 10 characters after the leftmost '/dp/' that is followed by at least 10
\* characters of [A-Z0-9] (a longer run is cut to its first 10), and "N/A"
\* when the URL holds no such '/dp/'.
C10_FirstTenOfRun ==
    \A k \in 1..Len(results) :
        LET r == results[k]
            ps == {p \in 1..Len(r.url) : AtLeastTenAt(r.url, p)}
        IN  r.status = "success" =>
              IF ps = {} THEN r.asin = NA
              ELSE \E p \in ps : /\ \A q \in ps : p <= q
                                 /\ Len(r.asin) = AsinLen
                                 /\ r.asin = SubSeq(r.url, p + 4, p + 3 + AsinLen)

\* C10 failing case: a success record whose URL has 11 characters of
\* [A-Z0-9] after '/dp/' and whose asin is the first 10 of them.
C10_LongRunCut ==
    \E k \in 1..Len(results) :
        /\ results[k].status = "success"
        /\ results[k].url = Http \o Dp \o SubSeq(AsinChars, 1, AsinLen + 1)
        /\ results[k].asin = SubSeq(AsinChars, 1, AsinLen)

====
